---- MODULE Spec2Model ----
(***************************************************************************)
(* Study-room booking engine: BookingService (moderated workflow), the     *)
(* Booking and Room entities and the in-memory BookingRepository and       *)
(* RoomRepository.  Instants are milliseconds of local time counted from   *)
(* midnight of day 0, as Date.getTime() counts them from its epoch.        *)
(***************************************************************************)
EXTENDS Integers, Sequences, FiniteSets, TLC

VARIABLES
    bookings,   \* BookingRepository.bookings : Map<id, Booking>
    rooms,      \* RoomRepository.rooms : Map<id, Room>, reduced to Room._status
    now,        \* the wall clock read by new Date()
    nextId,     \* the next fresh booking id (uuidv4 never repeats)
    last,       \* the last service call: its name and its outcome
    calls,      \* the concurrent createBooking calls in flight (SpecRace)
    p6,         \* progress of the reject / reopen / approve scenario (SpecP6)
    query       \* the call under examination: its arguments and, for a read,
                \* what it returned (SpecValidate, SpecRead)

vars == <<bookings, rooms, now, nextId, last, calls, p6, query>>

-----------------------------------------------------------------------------
(* Bounds and inputs *)

MaxBookings == 2

Rooms == {"A", "B"}
NoRoom == "X"
Users == {"U1", "U2"}
BookingIds == 1..MaxBookings

MsPerHour == 1000 * 60 * 60
MsPerDay == 24 * MsPerHour

At(day, hour, minute) == day * MsPerDay + hour * MsPerHour + minute * 60 * 1000

NowValues == {At(0, 14, 0), At(1, 12, 0)}

(* Requests of the sequential specification: one inside the window        *)
(* now..now+1 day, one outside it and off the hour, and a 3-hour request   *)
(* that overlaps the second and touches nothing else.                      *)
Requests ==
    { <<At(1, 10, 0), At(1, 11, 0)>>,
      <<At(2, 10, 30), At(2, 11, 30)>>,
      <<At(2, 10, 0), At(2, 13, 0)>> }

(* Requests put to a fresh service to exercise Booking.validate: every    *)
(* start on the hour or the half hour of the days 0..MaxDay, lengths from  *)
(* minus one hour to three hours, and four readings of the clock.          *)
MaxDay == 3

ValidateStarts == {At(d, h, m) : d \in 0..MaxDay, h \in 0..23, m \in {0, 30}}
ValidateMinutes == {0 - 60, 0, 30, 60, 90, 120, 150, 180}
ValidateClocks == {At(0, 0, 0), At(0, 14, 0), At(0, 23, 59), At(1, 12, 0)}

(* The stores the read operations are put to: up to MaxBookings bookings,   *)
(* each of any requester, room and status, over a 2-hour interval, an       *)
(* interval that starts on the half hour inside it, and a later one.        *)
ReadIntervals ==
    { <<At(2, 10, 0), At(2, 12, 0)>>,
      <<At(2, 10, 30), At(2, 11, 30)>>,
      <<At(2, 14, 0), At(2, 15, 0)>> }

ReadDates == {At(2, 9, 15), At(3, 0, 0)}

AllStatuses == {"PENDING", "APPROVED", "CANCELLED", "COMPLETED"}

userNameOf(userId) == IF userId = "U1" THEN "u1" ELSE "u2"

-----------------------------------------------------------------------------
(* Date arithmetic *)

getHours(t) == (t % MsPerDay) \div MsPerHour
startOfDay(t) == t - (t % MsPerDay)
endOfDay(t) == startOfDay(t) + 23 * MsPerHour + 59 * 60 * 1000 + 59 * 1000 + 999
addOneDay(t) == t + MsPerDay

-----------------------------------------------------------------------------
(* Room *)

Room_isAvailable(status) == status = "AVAILABLE"
markAsOccupied == "OCCUPIED"
markAsAvailable == "AVAILABLE"
setMaintenance == "MAINTENANCE"

-----------------------------------------------------------------------------
(* Booking *)

getDurationMs(startTime, endTime) == endTime - startTime

\* variant: any length from one hour to two hours is accepted
validate_DurationRange(startTime, endTime, clock) ==
    IF endTime <= startTime
    THEN "End time must be after start time"
    ELSE IF getDurationMs(startTime, endTime) < 1 * MsPerHour
            \/ getDurationMs(startTime, endTime) > 2 * MsPerHour
    THEN "Booking must be 1 or 2 hours"
    ELSE IF getHours(startTime) < 7 \/ getHours(startTime) >= 21
    THEN "Bookings only available between 7 AM and 9 PM"
    ELSE IF startOfDay(startTime) < startOfDay(addOneDay(clock))
    THEN "Must book at least 1 day in advance"
    ELSE "ok"

\* variant: a start in the hour from 21:00 is accepted
validate_ClosedAfter21(startTime, endTime, clock) ==
    IF endTime <= startTime
    THEN "End time must be after start time"
    ELSE IF getDurationMs(startTime, endTime) # 1 * MsPerHour
            /\ getDurationMs(startTime, endTime) # 2 * MsPerHour
    THEN "Booking must be 1 or 2 hours"
    ELSE IF getHours(startTime) < 7 \/ getHours(startTime) > 21
    THEN "Bookings only available between 7 AM and 9 PM"
    ELSE IF startOfDay(startTime) < startOfDay(addOneDay(clock))
    THEN "Must book at least 1 day in advance"
    ELSE "ok"

\* variant: the notice is 24 hours counted from the instant of the request
validate_NoticeFromInstant(startTime, endTime, clock) ==
    IF endTime <= startTime
    THEN "End time must be after start time"
    ELSE IF getDurationMs(startTime, endTime) # 1 * MsPerHour
            /\ getDurationMs(startTime, endTime) # 2 * MsPerHour
    THEN "Booking must be 1 or 2 hours"
    ELSE IF getHours(startTime) < 7 \/ getHours(startTime) >= 21
    THEN "Bookings only available between 7 AM and 9 PM"
    ELSE IF startTime < addOneDay(clock)
    THEN "Must book at least 1 day in advance"
    ELSE "ok"

\* variant: the start is compared with the midnight that begins today
validate_NoticeFromToday(startTime, endTime, clock) ==
    IF endTime <= startTime
    THEN "End time must be after start time"
    ELSE IF getDurationMs(startTime, endTime) # 1 * MsPerHour
            /\ getDurationMs(startTime, endTime) # 2 * MsPerHour
    THEN "Booking must be 1 or 2 hours"
    ELSE IF getHours(startTime) < 7 \/ getHours(startTime) >= 21
    THEN "Bookings only available between 7 AM and 9 PM"
    ELSE IF startOfDay(startTime) < startOfDay(clock)
    THEN "Must book at least 1 day in advance"
    ELSE "ok"

validate(startTime, endTime, clock) ==
    IF endTime <= startTime
    THEN "End time must be after start time"
    ELSE IF getDurationMs(startTime, endTime) # 1 * MsPerHour
            /\ getDurationMs(startTime, endTime) # 2 * MsPerHour
    THEN "Booking must be 1 or 2 hours"
    ELSE IF getHours(startTime) < 7 \/ getHours(startTime) >= 21
    THEN "Bookings only available between 7 AM and 9 PM"
    ELSE IF startOfDay(startTime) < startOfDay(addOneDay(clock))
    THEN "Must book at least 1 day in advance"
    ELSE "ok"

isActive(b) == b.status = "APPROVED"
isPending(b) == b.status = "PENDING"

\* variant: approve() sets the status before it tests the old one
Booking_approve_AssignThenCheck(b) ==
    [err |-> IF b.status # "PENDING"
             THEN "Only pending bookings can be approved" ELSE "ok",
     b |-> [b EXCEPT !.status = "APPROVED"]]

\* variant: approve() without its status guard
Booking_approve_Unguarded(b) ==
    [err |-> "ok", b |-> [b EXCEPT !.status = "APPROVED"]]

Booking_approve(b) ==
    IF b.status # "PENDING"
    THEN [err |-> "Only pending bookings can be approved", b |-> b]
    ELSE [err |-> "ok", b |-> [b EXCEPT !.status = "APPROVED"]]

\* variant: reject() with the guard of cancel()
Booking_reject_GuardOfCancel(b) ==
    IF b.status # "APPROVED" /\ b.status # "PENDING"
    THEN [err |-> "Only pending bookings can be rejected", b |-> b]
    ELSE [err |-> "ok", b |-> [b EXCEPT !.status = "CANCELLED"]]

Booking_reject(b) ==
    IF b.status # "PENDING"
    THEN [err |-> "Only pending bookings can be rejected", b |-> b]
    ELSE [err |-> "ok", b |-> [b EXCEPT !.status = "CANCELLED"]]

\* variant: cancel() without its status guard
Booking_cancel_Unguarded(b) ==
    [err |-> "ok", b |-> [b EXCEPT !.status = "CANCELLED"]]

\* variant: cancel() refuses only a completed booking
Booking_cancel_GuardCompletedOnly(b) ==
    IF b.status = "COMPLETED"
    THEN [err |-> "Only approved or pending bookings can be cancelled", b |-> b]
    ELSE [err |-> "ok", b |-> [b EXCEPT !.status = "CANCELLED"]]

Booking_cancel(b) ==
    IF b.status # "APPROVED" /\ b.status # "PENDING"
    THEN [err |-> "Only approved or pending bookings can be cancelled", b |-> b]
    ELSE [err |-> "ok", b |-> [b EXCEPT !.status = "CANCELLED"]]

Booking_complete(b) ==
    IF b.status # "APPROVED"
    THEN [err |-> "Only approved bookings can be completed", b |-> b]
    ELSE [err |-> "ok", b |-> [b EXCEPT !.status = "COMPLETED"]]

-----------------------------------------------------------------------------
(* BookingRepository, over a store bks : id -> Booking *)

\* variant: the bookings are matched on the requester's name
findByUserId_ByName(bks, userId) == {i \in DOMAIN bks : bks[i].userName = userId}

findByUserId(bks, userId) == {i \in DOMAIN bks : bks[i].userId = userId}

\* variant: the overlap test compares the stored end with the range's end
findByRoomAndDateRange_EndAgainstEnd(bks, roomId, start, end) ==
    {i \in DOMAIN bks :
        /\ bks[i].roomId = roomId
        /\ bks[i].status = "APPROVED"
        /\ bks[i].startTime < end
        /\ bks[i].endTime > end}

findByRoomAndDateRange(bks, roomId, start, end) ==
    {i \in DOMAIN bks :
        /\ bks[i].roomId = roomId
        /\ bks[i].status = "APPROVED"
        /\ bks[i].startTime < end
        /\ bks[i].endTime > start}

save(bks, id, b) == [i \in DOMAIN bks \cup {id} |-> IF i = id THEN b ELSE bks[i]]

\* variant: the record stays in the map
delete_Kept(bks, id) == bks

(* The map holds each entity by reference: what a method does to the       *)
(* entity that findById returned is done to the stored one, whether or not  *)
(* the method then throws and whether or not save() is reached (save() of   *)
(* an entity already in the map puts the same reference back).              *)
held(bks, id, b) == [bks EXCEPT ![id] = b]

delete(bks, id) == [i \in DOMAIN bks \ {id} |-> bks[i]]

findAll(bks) == DOMAIN bks

-----------------------------------------------------------------------------
(* BookingService *)

formatTimeSlot(startHour, endHour) ==
    [startDisplay |-> IF startHour > 12 THEN startHour - 12 ELSE startHour,
     startAMPM |-> IF startHour < 12 THEN "AM" ELSE "PM",
     endDisplay |-> IF endHour > 12 THEN endHour - 12 ELSE endHour,
     endAMPM |-> IF endHour < 12 \/ endHour = 24 THEN "AM" ELSE "PM"]

setHours(date, hour) == startOfDay(date) + hour * MsPerHour

\* variant: a slot is booked when a booking overlaps any part of its hour
availableSlots_AnyOverlap(bks, roomId, date) ==
    LET bookedSlots == findByRoomAndDateRange(bks, roomId, startOfDay(date), endOfDay(date))
    IN  [k \in 1..(21 - 7) |->
            LET hour == 7 + (k - 1)
                slotStart == setHours(date, hour)
                slotEnd == setHours(date, hour + 1)
                isBooked == \E i \in bookedSlots :
                                bks[i].startTime < slotEnd /\ bks[i].endTime > slotStart
            IN  [startHour |-> hour, endHour |-> hour + 1, isAvailable |-> ~isBooked,
                 displayLabel |-> formatTimeSlot(hour, hour + 1)]]

\* the array built by the loop `for (hour = 7; hour < 21; hour++)`
availableSlots(bks, roomId, date) ==
    LET bookedSlots == findByRoomAndDateRange(bks, roomId, startOfDay(date), endOfDay(date))
    IN  [k \in 1..(21 - 7) |->
            LET hour == 7 + (k - 1)
                slotStart == setHours(date, hour)
                isBooked == \E i \in bookedSlots :
                                bks[i].startTime <= slotStart /\ bks[i].endTime > slotStart
            IN  [startHour |-> hour, endHour |-> hour + 1, isAvailable |-> ~isBooked,
                 displayLabel |-> formatTimeSlot(hour, hour + 1)]]

\* variant: the occupancy of every room is recomputed
updateRoomAvailability_AllRooms(bks, rms, roomId, clock) ==
    [r \in DOMAIN rms |->
        IF findByRoomAndDateRange(bks, r, clock, addOneDay(clock)) = {}
        THEN markAsAvailable
        ELSE markAsOccupied]

\* variant: every approved booking of the room counts, whenever it is
updateRoomAvailability_AnyApproved(bks, rms, roomId, clock) ==
    IF roomId \in DOMAIN rms
    THEN [rms EXCEPT ![roomId] =
            IF {i \in DOMAIN bks : bks[i].roomId = roomId /\ isActive(bks[i])} = {}
            THEN markAsAvailable
            ELSE markAsOccupied]
    ELSE rms

updateRoomAvailability(bks, rms, roomId, clock) ==
    IF roomId \in DOMAIN rms
    THEN [rms EXCEPT ![roomId] =
            IF findByRoomAndDateRange(bks, roomId, clock, addOneDay(clock)) = {}
            THEN markAsAvailable
            ELSE markAsOccupied]
    ELSE rms

\* variant: only approved bookings count against the same-day rule
bookingsOnSameDay_ActiveOnly(bks, userId, startTime) ==
    {i \in findByUserId(bks, userId) :
        /\ startOfDay(bks[i].startTime) = startOfDay(startTime)
        /\ isActive(bks[i])}

bookingsOnSameDay(bks, userId, startTime) ==
    {i \in findByUserId(bks, userId) :
        /\ startOfDay(bks[i].startTime) = startOfDay(startTime)
        /\ (isActive(bks[i]) \/ isPending(bks[i]))}

approvedConflicts(bks, roomId, startTime, endTime) ==
    {i \in findByRoomAndDateRange(bks, roomId, startTime, endTime) : isActive(bks[i])}

\* variant: the booking is constructed, and so validated, right after the
\* room lookup
createOutcome_ValidateFirst(bks, rms, userId, roomId, startTime, endTime, clock) ==
    IF roomId \notin DOMAIN rms
    THEN "Room not found"
    ELSE IF validate(startTime, endTime, clock) # "ok"
    THEN validate(startTime, endTime, clock)
    ELSE IF ~Room_isAvailable(rms[roomId])
    THEN "Room is not available"
    ELSE IF bookingsOnSameDay(bks, userId, startTime) # {}
    THEN "You can only book one room per day"
    ELSE IF approvedConflicts(bks, roomId, startTime, endTime) # {}
    THEN "Time slot already booked"
    ELSE "ok"

createOutcome(bks, rms, userId, roomId, startTime, endTime, clock) ==
    IF roomId \notin DOMAIN rms
    THEN "Room not found"
    ELSE IF ~Room_isAvailable(rms[roomId])
    THEN "Room is not available"
    ELSE IF bookingsOnSameDay(bks, userId, startTime) # {}
    THEN "You can only book one room per day"
    ELSE IF approvedConflicts(bks, roomId, startTime, endTime) # {}
    THEN "Time slot already booked"
    ELSE validate(startTime, endTime, clock)

\* variant: the booking is constructed as APPROVED
newBooking_Approved(roomId, userId, userName, startTime, endTime, clock) ==
    [roomId |-> roomId, userId |-> userId, userName |-> userName,
     startTime |-> startTime, endTime |-> endTime,
     status |-> "APPROVED", createdAt |-> clock]

\* a stored booking that later calls have taken to the status `status`
storedBooking(roomId, userId, userName, startTime, endTime, clock, status) ==
    [roomId |-> roomId, userId |-> userId, userName |-> userName,
     startTime |-> startTime, endTime |-> endTime,
     status |-> status, createdAt |-> clock]

newBooking(roomId, userId, userName, startTime, endTime, clock) ==
    [roomId |-> roomId, userId |-> userId, userName |-> userName,
     startTime |-> startTime, endTime |-> endTime,
     status |-> "PENDING", createdAt |-> clock]

createBooking(userId, userName, roomId, startTime, endTime) ==
    LET res == createOutcome(bookings, rooms, userId, roomId, startTime, endTime, now)
    IN  /\ res = "ok" => nextId <= MaxBookings
        /\ last' = [op |-> "createBooking", res |-> res]
        /\ IF res = "ok"
           THEN /\ bookings' = save(bookings, nextId,
                        newBooking(roomId, userId, userName, startTime, endTime, now))
                /\ nextId' = nextId + 1
           ELSE UNCHANGED <<bookings, nextId>>
        /\ UNCHANGED <<rooms, now>>

\* variant: the status is checked before the ownership
cancelOutcome_StatusFirst(bks, bookingId, userId) ==
    IF bookingId \notin DOMAIN bks
    THEN "Booking not found"
    ELSE IF Booking_cancel(bks[bookingId]).err # "ok"
    THEN Booking_cancel(bks[bookingId]).err
    ELSE IF bks[bookingId].userId # userId
    THEN "Unauthorized"
    ELSE "ok"

\* what cancelBooking throws, or "ok" (lines 234-244)
cancelOutcome(bks, bookingId, userId) ==
    IF bookingId \notin DOMAIN bks
    THEN "Booking not found"
    ELSE IF bks[bookingId].userId # userId
    THEN "Unauthorized"
    ELSE Booking_cancel(bks[bookingId]).err

cancelBooking(bookingId, userId) ==
    LET res == cancelOutcome(bookings, bookingId, userId)
    IN  /\ UNCHANGED <<now, nextId>>
        /\ last' = [op |-> "cancelBooking", res |-> res]
        /\ IF res \in {"Booking not found", "Unauthorized"}
           THEN UNCHANGED <<bookings, rooms>>
           ELSE LET b == Booking_cancel(bookings[bookingId]).b
                    bks == held(bookings, bookingId, b)
                IN  /\ bookings' = bks
                    /\ rooms' = IF res = "ok"
                                THEN updateRoomAvailability(bks, rooms, b.roomId, now)
                                ELSE rooms

\* variant: the room is looked up but never marked
occupy_Skipped(rms, roomId) == rms

occupy(rms, roomId) ==
    IF roomId \in DOMAIN rms
    THEN [rms EXCEPT ![roomId] = markAsOccupied]
    ELSE rms

approveBooking(bookingId) ==
    /\ UNCHANGED <<now, nextId>>
    /\ IF bookingId \notin DOMAIN bookings
       THEN /\ last' = [op |-> "approveBooking", res |-> "Booking not found"]
            /\ UNCHANGED <<bookings, rooms>>
       ELSE LET r == Booking_approve(bookings[bookingId])
            IN  /\ last' = [op |-> "approveBooking", res |-> r.err]
                /\ bookings' = held(bookings, bookingId, r.b)
                /\ rooms' = IF r.err = "ok" THEN occupy(rooms, r.b.roomId) ELSE rooms

rejectBooking(bookingId) ==
    /\ UNCHANGED <<now, nextId, rooms>>
    /\ IF bookingId \notin DOMAIN bookings
       THEN /\ last' = [op |-> "rejectBooking", res |-> "Booking not found"]
            /\ UNCHANGED bookings
       ELSE LET r == Booking_reject(bookings[bookingId])
            IN  /\ last' = [op |-> "rejectBooking", res |-> r.err]
                /\ bookings' = held(bookings, bookingId, r.b)

deleteBooking(bookingId) ==
    /\ UNCHANGED <<now, nextId>>
    /\ IF bookingId \notin DOMAIN bookings
       THEN /\ last' = [op |-> "deleteBooking", res |-> "Booking not found"]
            /\ UNCHANGED <<bookings, rooms>>
       ELSE LET bks == delete(bookings, bookingId)
            IN  /\ last' = [op |-> "deleteBooking", res |-> "ok"]
                /\ bookings' = bks
                /\ rooms' = updateRoomAvailability(bks, rooms,
                                bookings[bookingId].roomId, now)

\* variant: a cancelled booking is put straight back to APPROVED
reopenStatus_ToApproved(b) ==
    IF b.status # "CANCELLED"
    THEN [err |-> "Only cancelled bookings can be re-approved", b |-> b]
    ELSE [err |-> "ok", b |-> [b EXCEPT !.status = "APPROVED"]]

reopenStatus(b) ==
    IF b.status # "CANCELLED"
    THEN [err |-> "Only cancelled bookings can be re-approved", b |-> b]
    ELSE [err |-> "ok", b |-> [b EXCEPT !.status = "PENDING"]]

reApproveBooking(bookingId) ==
    /\ UNCHANGED <<now, nextId, rooms>>
    /\ IF bookingId \notin DOMAIN bookings
       THEN /\ last' = [op |-> "reApproveBooking", res |-> "Booking not found"]
            /\ UNCHANGED bookings
       ELSE LET r == reopenStatus(bookings[bookingId])
            IN  /\ last' = [op |-> "reApproveBooking", res |-> r.err]
                /\ bookings' = held(bookings, bookingId, r.b)

\* variant: an unknown status value is taken for 'available'
roomStatusOutcome_DefaultAvailable(rms, roomId, status) ==
    IF roomId \notin DOMAIN rms
    THEN [err |-> "Room not found", rms |-> rms]
    ELSE CASE status = "occupied" ->
                [err |-> "ok", rms |-> [rms EXCEPT ![roomId] = markAsOccupied]]
           [] status = "maintenance" ->
                [err |-> "ok", rms |-> [rms EXCEPT ![roomId] = setMaintenance]]
           [] OTHER ->
                [err |-> "ok", rms |-> [rms EXCEPT ![roomId] = markAsAvailable]]

\* PATCH /rooms/:id/status: the answer and the rooms after it.  The handler
\* works on the Room that the repository holds, so the change stays.
roomStatusOutcome(rms, roomId, status) ==
    IF roomId \notin DOMAIN rms
    THEN [err |-> "Room not found", rms |-> rms]
    ELSE CASE status = "available" ->
                [err |-> "ok", rms |-> [rms EXCEPT ![roomId] = markAsAvailable]]
           [] status = "occupied" ->
                [err |-> "ok", rms |-> [rms EXCEPT ![roomId] = markAsOccupied]]
           [] status = "maintenance" ->
                [err |-> "ok", rms |-> [rms EXCEPT ![roomId] = setMaintenance]]
           [] OTHER ->
                [err |-> "Invalid status provided", rms |-> rms]

updateRoomStatus(roomId, status) ==
    LET r == roomStatusOutcome(rooms, roomId, status)
    IN  /\ last' = [op |-> "updateRoomStatus", res |-> r.err]
        /\ rooms' = r.rms
        /\ UNCHANGED <<bookings, now, nextId>>

(* Booking.complete() applied to a stored entity: the store holds the      *)
(* entity by reference, so the change is visible to every later lookup.    *)
complete(bookingId) ==
    /\ bookingId \in DOMAIN bookings
    /\ UNCHANGED <<now, nextId, rooms>>
    /\ LET r == Booking_complete(bookings[bookingId])
       IN  /\ last' = [op |-> "complete", res |-> r.err]
           /\ bookings' = held(bookings, bookingId, r.b)

(* The wall clock moves on. *)
Tick ==
    /\ \E t \in NowValues : t > now /\ now' = t
    /\ UNCHANGED <<bookings, rooms, nextId, last>>

-----------------------------------------------------------------------------
(* createBooking as the event loop runs it: the body is cut at each await  *)
(* of a repository call.  A repository method runs to its result when it   *)
(* is called; the caller resumes with that result in a later turn, and     *)
(* another call may run in between.  The arrays a lookup returns hold the  *)
(* stored entities by reference, so a status read after the await is the   *)
(* live one.                                                               *)

Callers == 1..2

IdleCall ==
    [pc |-> "idle", userId |-> "", roomId |-> "", startTime |-> 0, endTime |-> 0,
     found |-> {}, res |-> ""]

IdleCalls == [c \in Callers |-> IdleCall]

finish(c, res) ==
    /\ calls' = [calls EXCEPT ![c].pc = "done", ![c].res = res, ![c].found = {}]
    /\ last' = [op |-> "createBooking", res |-> res]

(* lines 169-177: the call runs up to `await roomRepository.findById` *)
invoke(c, userId, roomId, startTime, endTime) ==
    /\ calls[c].pc = "idle"
    /\ calls' = [calls EXCEPT ![c] =
            [pc |-> "awaitRoom", userId |-> userId, roomId |-> roomId,
             startTime |-> startTime, endTime |-> endTime,
             found |-> {roomId} \cap DOMAIN rooms, res |-> ""]]
    /\ UNCHANGED <<bookings, rooms, now, nextId, last, p6, query>>

(* lines 178-192: resumes with the room, runs up to `await findByUserId` *)
resumeRoom(c) ==
    /\ calls[c].pc = "awaitRoom"
    /\ UNCHANGED <<bookings, rooms, now, nextId, p6, query>>
    /\ IF calls[c].found = {}
       THEN finish(c, "Room not found")
       ELSE IF ~Room_isAvailable(rooms[calls[c].roomId])
       THEN finish(c, "Room is not available")
       ELSE /\ calls' = [calls EXCEPT ![c].pc = "awaitUser",
                            ![c].found = findByUserId(bookings, calls[c].userId)]
            /\ UNCHANGED last

(* lines 193-211: resumes with userBookings, runs up to                    *)
(* `await findByRoomAndDateRange`                                          *)
resumeUser(c) ==
    /\ calls[c].pc = "awaitUser"
    /\ UNCHANGED <<bookings, rooms, now, nextId, p6, query>>
    /\ LET sameDay == {i \in calls[c].found \cap DOMAIN bookings :
                          /\ startOfDay(bookings[i].startTime) = startOfDay(calls[c].startTime)
                          /\ (isActive(bookings[i]) \/ isPending(bookings[i]))}
       IN  IF sameDay # {}
           THEN finish(c, "You can only book one room per day")
           ELSE /\ calls' = [calls EXCEPT ![c].pc = "awaitConflicts",
                                ![c].found = findByRoomAndDateRange(bookings,
                                    calls[c].roomId, calls[c].startTime, calls[c].endTime)]
                /\ UNCHANGED last

(* lines 213-228: resumes with conflicts, constructs the Booking and runs  *)
(* up to `await bookingRepository.save`, which has stored it               *)
resumeConflicts(c) ==
    /\ calls[c].pc = "awaitConflicts"
    /\ UNCHANGED <<rooms, now, p6, query>>
    /\ LET approved == {i \in calls[c].found \cap DOMAIN bookings : isActive(bookings[i])}
           v == validate(calls[c].startTime, calls[c].endTime, now)
       IN  IF approved # {}
           THEN finish(c, "Time slot already booked") /\ UNCHANGED <<bookings, nextId>>
           ELSE IF v # "ok"
           THEN finish(c, v) /\ UNCHANGED <<bookings, nextId>>
           ELSE /\ nextId <= MaxBookings
                /\ bookings' = save(bookings, nextId,
                        newBooking(calls[c].roomId, calls[c].userId,
                                   userNameOf(calls[c].userId),
                                   calls[c].startTime, calls[c].endTime, now))
                /\ nextId' = nextId + 1
                /\ calls' = [calls EXCEPT ![c].pc = "awaitSave", ![c].found = {nextId}]
                /\ UNCHANGED last

(* lines 228-230: resumes with savedBooking and returns it *)
resumeSave(c) ==
    /\ calls[c].pc = "awaitSave"
    /\ UNCHANGED <<bookings, rooms, now, nextId, p6, query>>
    /\ finish(c, "ok")

-----------------------------------------------------------------------------
(* Specification: the service calls run one at a time *)

EmptyStore == [i \in {} |-> 0]

IdleP6 == [stage |-> 0, id |-> 0]

NoQuery == [op |-> "none"]

Init ==
    /\ bookings = EmptyStore
    /\ rooms = [r \in Rooms |-> "AVAILABLE"]
    /\ now = At(0, 14, 0)
    /\ nextId = 1
    /\ last = [op |-> "none", res |-> "ok"]
    /\ calls = IdleCalls
    /\ p6 = IdleP6
    /\ query = NoQuery

Idle == UNCHANGED <<calls, p6, query>>

Next ==
    \/ \E u \in Users, r \in Rooms \cup {NoRoom}, q \in Requests :
          createBooking(u, userNameOf(u), r, q[1], q[2]) /\ Idle
    \/ \E i \in BookingIds, u \in Users : cancelBooking(i, u) /\ Idle
    \/ \E i \in BookingIds : approveBooking(i) /\ Idle
    \/ \E i \in BookingIds : rejectBooking(i) /\ Idle
    \/ \E i \in BookingIds : deleteBooking(i) /\ Idle
    \/ \E i \in BookingIds : reApproveBooking(i) /\ Idle
    \/ \E i \in BookingIds : complete(i) /\ Idle

Spec == Init /\ [][Next]_vars

(* The service together with the administrator's room-status route *)
StatusInputs == {"available", "occupied", "maintenance", "closed"}

NextAdmin ==
    \/ Next
    \/ \E r \in Rooms \cup {NoRoom}, st \in StatusInputs : updateRoomStatus(r, st) /\ Idle

SpecAdmin == Init /\ [][NextAdmin]_vars

(* Two createBooking calls in flight at once, on a fresh store *)
NextRace ==
    \/ \E c \in Callers, u \in Users, r \in Rooms \cup {NoRoom}, q \in Requests :
          invoke(c, u, r, q[1], q[2])
    \/ \E c \in Callers : resumeRoom(c)
    \/ \E c \in Callers : resumeUser(c)
    \/ \E c \in Callers : resumeConflicts(c)
    \/ \E c \in Callers : resumeSave(c)

SpecRace == Init /\ [][NextRace]_vars

(* A moderator takes one freshly created booking through reject, reopen    *)
(* and approve, starting from any state the service can reach; time may    *)
(* pass between the moderator's steps.                                     *)
P6Create ==
    /\ p6.stage = 0
    /\ \E u \in Users, r \in Rooms, q \in Requests :
          createBooking(u, userNameOf(u), r, q[1], q[2])
    /\ last'.res = "ok"
    /\ p6' = [stage |-> 1, id |-> nextId]
    /\ UNCHANGED <<calls, query>>

P6Reject ==
    /\ p6.stage = 1
    /\ rejectBooking(p6.id)
    /\ p6' = [p6 EXCEPT !.stage = 2]
    /\ UNCHANGED <<calls, query>>

P6Reopen ==
    /\ p6.stage = 2
    /\ reApproveBooking(p6.id)
    /\ p6' = [p6 EXCEPT !.stage = 3]
    /\ UNCHANGED <<calls, query>>

P6Approve ==
    /\ p6.stage = 3
    /\ approveBooking(p6.id)
    /\ p6' = [p6 EXCEPT !.stage = 4]
    /\ UNCHANGED <<calls, query>>

P6Tick ==
    /\ p6.stage \in 1..3
    /\ Tick
    /\ UNCHANGED <<calls, p6, query>>

NextP6 ==
    \/ p6.stage = 0 /\ Next
    \/ P6Create
    \/ P6Reject
    \/ P6Reopen
    \/ P6Approve
    \/ P6Tick

SpecP6 == Init /\ [][NextP6]_vars

-----------------------------------------------------------------------------
(* The unmoderated BookingService (the first class of BookingService.ts)    *)
(* with the Booking entity of its time, whose status is ACTIVE, CANCELLED   *)
(* or COMPLETED.  A third room is seeded so that a requester with two       *)
(* ACTIVE bookings can still find a room that is AVAILABLE.                 *)

UnmoderatedRooms == Rooms \cup {"C"}
UnmoderatedIds == 1..(MaxBookings + 1)

unmoderated_isActive(b) == b.status = "ACTIVE"

unmoderated_cancel(b) ==
    IF b.status # "ACTIVE"
    THEN [err |-> "Only active bookings can be cancelled", b |-> b]
    ELSE [err |-> "ok", b |-> [b EXCEPT !.status = "CANCELLED"]]

(* The repository the unmoderated service was written against: its range  *)
(* lookup returns the bookings of the room that are ACTIVE and overlap the  *)
(* range (the BookingRepository of the moderated service selects APPROVED). *)
unmoderated_findByRoomAndDateRange(bks, roomId, start, end) ==
    {i \in DOMAIN bks :
        /\ bks[i].roomId = roomId
        /\ unmoderated_isActive(bks[i])
        /\ bks[i].startTime < end
        /\ bks[i].endTime > start}

unmoderated_updateRoomAvailability(bks, rms, roomId, clock) ==
    IF roomId \in DOMAIN rms
    THEN [rms EXCEPT ![roomId] =
            IF unmoderated_findByRoomAndDateRange(bks, roomId, clock, addOneDay(clock)) = {}
            THEN markAsAvailable
            ELSE markAsOccupied]
    ELSE rms

unmoderated_activeBookings(bks, userId) ==
    {i \in findByUserId(bks, userId) : unmoderated_isActive(bks[i])}

\* variant: the limit is tested with > instead of >=
unmoderated_createOutcome_LimitThree(bks, rms, userId, roomId, startTime, endTime, clock) ==
    IF roomId \notin DOMAIN rms
    THEN "Room not found"
    ELSE IF ~Room_isAvailable(rms[roomId])
    THEN "Room is not available"
    ELSE IF unmoderated_findByRoomAndDateRange(bks, roomId, startTime, endTime) # {}
    THEN "Time slot already booked"
    ELSE IF Cardinality(unmoderated_activeBookings(bks, userId)) > 2
    THEN "Maximum 2 active bookings per user"
    ELSE validate(startTime, endTime, clock)

unmoderated_createOutcome(bks, rms, userId, roomId, startTime, endTime, clock) ==
    IF roomId \notin DOMAIN rms
    THEN "Room not found"
    ELSE IF ~Room_isAvailable(rms[roomId])
    THEN "Room is not available"
    ELSE IF unmoderated_findByRoomAndDateRange(bks, roomId, startTime, endTime) # {}
    THEN "Time slot already booked"
    ELSE IF Cardinality(unmoderated_activeBookings(bks, userId)) >= 2
    THEN "Maximum 2 active bookings per user"
    ELSE validate(startTime, endTime, clock)

unmoderated_newBooking(roomId, userId, startTime, endTime, clock) ==
    [roomId |-> roomId, userId |-> userId,
     startTime |-> startTime, endTime |-> endTime,
     status |-> "ACTIVE", createdAt |-> clock]

unmoderated_createBooking(userId, roomId, startTime, endTime) ==
    LET res == unmoderated_createOutcome(bookings, rooms, userId, roomId,
                                         startTime, endTime, now)
    IN  /\ res = "ok" => nextId \in UnmoderatedIds
        /\ last' = [op |-> "createBooking", res |-> res]
        /\ IF res = "ok"
           THEN /\ bookings' = save(bookings, nextId,
                        unmoderated_newBooking(roomId, userId, startTime, endTime, now))
                /\ nextId' = nextId + 1
                /\ rooms' = [rooms EXCEPT ![roomId] = markAsOccupied]
           ELSE UNCHANGED <<bookings, nextId, rooms>>
        /\ UNCHANGED now

unmoderated_cancelBooking(bookingId, userId) ==
    /\ UNCHANGED <<now, nextId>>
    /\ IF bookingId \notin DOMAIN bookings
       THEN /\ last' = [op |-> "cancelBooking", res |-> "Booking not found"]
            /\ UNCHANGED <<bookings, rooms>>
       ELSE IF bookings[bookingId].userId # userId
       THEN /\ last' = [op |-> "cancelBooking", res |-> "Unauthorized"]
            /\ UNCHANGED <<bookings, rooms>>
       ELSE LET r == unmoderated_cancel(bookings[bookingId])
                bks == held(bookings, bookingId, r.b)
            IN  /\ last' = [op |-> "cancelBooking", res |-> r.err]
                /\ bookings' = bks
                /\ rooms' = IF r.err = "ok"
                            THEN unmoderated_updateRoomAvailability(bks, rooms,
                                                                    r.b.roomId, now)
                            ELSE rooms

InitUnmoderated ==
    /\ bookings = EmptyStore
    /\ rooms = [r \in UnmoderatedRooms |-> "AVAILABLE"]
    /\ now = At(0, 14, 0)
    /\ nextId = 1
    /\ last = [op |-> "none", res |-> "ok"]
    /\ calls = IdleCalls
    /\ p6 = IdleP6
    /\ query = NoQuery

NextUnmoderated ==
    \/ \E u \in Users, r \in UnmoderatedRooms \cup {NoRoom}, q \in Requests :
          unmoderated_createBooking(u, r, q[1], q[2]) /\ Idle
    \/ \E i \in UnmoderatedIds, u \in Users : unmoderated_cancelBooking(i, u) /\ Idle

SpecUnmoderated == InitUnmoderated /\ [][NextUnmoderated]_vars

(* Booking.validate exercised through the constructor: one createBooking   *)
(* call on a freshly started service, where the room is AVAILABLE and no    *)
(* booking is stored, so the call reaches `new Booking(...)`.               *)
InitValidate ==
    /\ bookings = EmptyStore
    /\ rooms = [r \in Rooms |-> "AVAILABLE"]
    /\ now \in ValidateClocks
    /\ nextId = 1
    /\ last = [op |-> "none", res |-> "ok"]
    /\ calls = IdleCalls
    /\ p6 = IdleP6
    /\ query = NoQuery

firstRequest(userId, roomId, startTime, endTime) ==
    /\ last.op = "none"
    /\ createBooking(userId, userNameOf(userId), roomId, startTime, endTime)
    /\ query' = [op |-> "createBooking", userId |-> userId, roomId |-> roomId,
                 startTime |-> startTime, endTime |-> endTime]
    /\ UNCHANGED <<calls, p6>>

NextValidate ==
    \E r \in Rooms, s \in ValidateStarts, d \in ValidateMinutes :
        firstRequest("U1", r, s, s + d * 60 * 1000)

SpecValidate == InitValidate /\ [][NextValidate]_vars

(* The read operations, each put once to a store drawn from the bounded    *)
(* stores: bookings made at 14:00 of day 0, in any mix of statuses, with    *)
(* a room OCCUPIED when a booking of it has been approved.                  *)
StoredBookings ==
    {storedBooking(r, u, userNameOf(u), q[1], q[2], At(0, 14, 0), st) :
        r \in Rooms, u \in Users, q \in ReadIntervals, st \in AllStatuses}

Stores == UNION {[1..n -> StoredBookings] : n \in 0..MaxBookings}

InitRead ==
    /\ bookings \in Stores
    /\ rooms = [r \in Rooms |->
                  IF \E i \in DOMAIN bookings :
                        bookings[i].roomId = r /\ bookings[i].status = "APPROVED"
                  THEN "OCCUPIED" ELSE "AVAILABLE"]
    /\ now = At(0, 14, 0)
    /\ nextId = Cardinality(DOMAIN bookings) + 1
    /\ last = [op |-> "none", res |-> "ok"]
    /\ calls = IdleCalls
    /\ p6 = IdleP6
    /\ query = NoQuery

Read == UNCHANGED <<bookings, rooms, now, nextId, last, calls, p6>>

getAvailableSlots(roomId, date) ==
    /\ query.op = "none"
    /\ query' = [op |-> "getAvailableSlots", roomId |-> roomId, date |-> date,
                 res |-> availableSlots(bookings, roomId, date)]
    /\ Read

getUserBookings(userId) ==
    /\ query.op = "none"
    /\ query' = [op |-> "getUserBookings", userId |-> userId,
                 res |-> findByUserId(bookings, userId)]
    /\ Read

getAllBookings ==
    /\ query.op = "none"
    /\ query' = [op |-> "getAllBookings", res |-> findAll(bookings)]
    /\ Read

getAllRooms ==
    /\ query.op = "none"
    /\ query' = [op |-> "getAllRooms", res |-> rooms]
    /\ Read

NextRead ==
    \/ \E r \in Rooms \cup {NoRoom}, d \in ReadDates : getAvailableSlots(r, d)
    \/ \E u \in Users : getUserBookings(u)
    \/ getAllBookings
    \/ getAllRooms

SpecRead == InitRead /\ [][NextRead]_vars

-----------------------------------------------------------------------------
(* Properties *)

Overlaps(s1, e1, s2, e2) == s1 < e2 /\ e1 > s2

OverlapsApproved(roomId, startTime, endTime) ==
    \E i \in DOMAIN bookings :
        /\ bookings[i].roomId = roomId
        /\ bookings[i].status = "APPROVED"
        /\ Overlaps(bookings[i].startTime, bookings[i].endTime, startTime, endTime)

HoldsThatDay(userId, startTime, statuses) ==
    \E i \in DOMAIN bookings :
        /\ bookings[i].userId = userId
        /\ bookings[i].status \in statuses
        /\ bookings[i].startTime \div MsPerDay = startTime \div MsPerDay

Created(op) == createBooking(op[1], userNameOf(op[1]), op[2], op[3][1], op[3][2])

CreateInputs == Users \X (Rooms \cup {NoRoom}) \X Requests

\* what createBooking answers to the request op in the current state
Outcome(op) == createOutcome(bookings, rooms, op[1], op[2], op[3][1], op[3][2], now)

FailedCreate(reasons) == last'.op = "createBooking" /\ last'.res \in reasons

\* C1: no two distinct APPROVED reservations on the same resource have
\* overlapping half-open intervals [start, end).
C1_NoDoubleAllocation ==
    \A i, j \in DOMAIN bookings :
        (/\ i # j
         /\ bookings[i].status = "APPROVED"
         /\ bookings[j].status = "APPROVED"
         /\ bookings[i].roomId = bookings[j].roomId)
        => ~Overlaps(bookings[i].startTime, bookings[i].endTime,
                     bookings[j].startTime, bookings[j].endTime)

\* C2: two concurrent createBooking calls whose intervals overlap on the same
\* room never both succeed, whatever the interleaving of their steps.
C2_NeverBothSucceed ==
    ~(/\ calls[1].pc = "done" /\ calls[1].res = "ok"
      /\ calls[2].pc = "done" /\ calls[2].res = "ok"
      /\ calls[1].roomId = calls[2].roomId
      /\ Overlaps(calls[1].startTime, calls[1].endTime,
                  calls[2].startTime, calls[2].endTime))

SameDayRule(op) ==
    /\ op[2] \in Rooms
    /\ rooms[op[2]] = "AVAILABLE"
    /\ HoldsThatDay(op[1], op[3][1], {"PENDING", "APPROVED"})

\* C4 (as claimed): createBooking on an existing room is rejected with 'You
\* can only book one room per day' whenever the requester holds a PENDING or
\* APPROVED reservation that starts on the proposed start date.
C4_SameDayAlwaysRejected ==
    [][last'.op = "createBooking" =>
        \A op \in CreateInputs :
          (/\ op[2] \in Rooms
           /\ HoldsThatDay(op[1], op[3][1], {"PENDING", "APPROVED"})
           /\ Created(op))
          => last'.res = "You can only book one room per day"]_vars

\* C4 (amended): createBooking fails with 'You can only book one room per
\* day' exactly when the room exists, its state is AVAILABLE and the requester
\* holds a PENDING or APPROVED reservation starting on the proposed start
\* date; CANCELLED and COMPLETED reservations do not count.  The failing call
\* stores nothing.
C4_SameDayRejected ==
    /\ [](\A op \in CreateInputs :
            Outcome(op) = "You can only book one room per day" <=> SameDayRule(op))
    /\ [][FailedCreate({"You can only book one room per day"})
            => bookings' = bookings /\ rooms' = rooms]_vars

C4_Witness ==
    /\ last = [op |-> "createBooking", res |-> "You can only book one room per day"]
    /\ \E i \in DOMAIN bookings : bookings[i].status \in {"PENDING", "APPROVED"}

\* C5 (as claimed): a createBooking call on an existing room whose interval
\* the validator accepts, whose requester holds no PENDING or APPROVED
\* reservation that day and which overlaps no APPROVED reservation of the
\* room succeeds and stores a new PENDING reservation.
C5_PassingCallSucceeds ==
    [][last'.op = "createBooking" =>
        \A op \in CreateInputs :
          (/\ op[2] \in Rooms
           /\ validate(op[3][1], op[3][2], now) = "ok"
           /\ ~HoldsThatDay(op[1], op[3][1], {"PENDING", "APPROVED"})
           /\ ~OverlapsApproved(op[2], op[3][1], op[3][2])
           /\ Created(op))
          => (/\ last'.res = "ok"
              /\ nextId \in DOMAIN bookings'
              /\ bookings'[nextId].status = "PENDING")]_vars

\* C5 (amended): the same, for a room whose state is AVAILABLE: the call
\* succeeds and stores exactly one new reservation, in status PENDING, and
\* changes no stored reservation and no room.
C5_PassingCallOnAvailableRoomSucceeds ==
    /\ [](\A op \in CreateInputs :
            (/\ op[2] \in Rooms
             /\ rooms[op[2]] = "AVAILABLE"
             /\ validate(op[3][1], op[3][2], now) = "ok"
             /\ ~HoldsThatDay(op[1], op[3][1], {"PENDING", "APPROVED"})
             /\ ~OverlapsApproved(op[2], op[3][1], op[3][2]))
            => Outcome(op) = "ok")
    /\ [][(last'.op = "createBooking" /\ last'.res = "ok")
            => (/\ DOMAIN bookings' = DOMAIN bookings \cup {nextId}
                /\ nextId \notin DOMAIN bookings
                /\ bookings'[nextId].status = "PENDING"
                /\ Outcome(<<bookings'[nextId].userId, bookings'[nextId].roomId,
                             <<bookings'[nextId].startTime, bookings'[nextId].endTime>> >>)
                       = "ok"
                /\ \A i \in DOMAIN bookings : bookings'[i] = bookings[i]
                /\ rooms' = rooms)]_vars

C5_Witness ==
    /\ last = [op |-> "createBooking", res |-> "ok"]
    /\ nextId - 1 \in DOMAIN bookings
    /\ bookings[nextId - 1].status = "PENDING"
    /\ \E i \in DOMAIN bookings :
          /\ i # nextId - 1
          /\ bookings[i].status = "PENDING"
          /\ bookings[i].userId # bookings[nextId - 1].userId
          /\ bookings[i].roomId = bookings[nextId - 1].roomId
          /\ Overlaps(bookings[i].startTime, bookings[i].endTime,
                      bookings[nextId - 1].startTime, bookings[nextId - 1].endTime)

\* C6: approveBooking on a stored reservation succeeds only from PENDING, and
\* then the status becomes APPROVED and the room OCCUPIED; from any other
\* status it fails and changes neither the reservations nor the rooms.
C6_ApproveOnlyFromPending ==
    [][\A i \in DOMAIN bookings :
          (last'.op = "approveBooking" /\ approveBooking(i))
          => IF bookings[i].status = "PENDING"
             THEN /\ last'.res = "ok"
                  /\ bookings' = [bookings EXCEPT ![i].status = "APPROVED"]
                  /\ rooms' = [rooms EXCEPT ![bookings[i].roomId] = "OCCUPIED"]
             ELSE /\ last'.res = "Only pending bookings can be approved"
                  /\ bookings' = bookings
                  /\ rooms' = rooms]_vars

C6_Witness ==
    /\ last = [op |-> "approveBooking", res |-> "ok"]
    /\ \E i \in DOMAIN bookings :
          bookings[i].status = "APPROVED" /\ rooms[bookings[i].roomId] = "OCCUPIED"

\* C7: rejectBooking on a stored reservation succeeds only from PENDING and
\* then sets CANCELLED; whether it succeeds or fails it changes no room's
\* state.
C7_RejectOnlyFromPending ==
    [][\A i \in BookingIds :
          (last'.op = "rejectBooking" /\ rejectBooking(i))
          => /\ rooms' = rooms
             /\ i \in DOMAIN bookings =>
                  IF bookings[i].status = "PENDING"
                  THEN /\ last'.res = "ok"
                       /\ bookings' = [bookings EXCEPT ![i].status = "CANCELLED"]
                  ELSE /\ last'.res # "ok"
                       /\ bookings' = bookings]_vars

C7_Witness ==
    /\ last = [op |-> "rejectBooking", res |-> "ok"]
    /\ \E i \in DOMAIN bookings : bookings[i].status = "CANCELLED"
    /\ \E r \in Rooms : rooms[r] = "OCCUPIED"

\* C8: reApproveBooking on a stored reservation succeeds only from CANCELLED
\* and then sets PENDING; from PENDING, APPROVED or COMPLETED it fails and
\* leaves the status as it was.
C8_ReopenOnlyFromCancelled ==
    [][\A i \in DOMAIN bookings :
          (last'.op = "reApproveBooking" /\ reApproveBooking(i))
          => IF bookings[i].status = "CANCELLED"
             THEN /\ last'.res = "ok"
                  /\ bookings' = [bookings EXCEPT ![i].status = "PENDING"]
             ELSE /\ last'.res = "Only cancelled bookings can be re-approved"
                  /\ bookings' = bookings]_vars

C8_Witness ==
    /\ last = [op |-> "reApproveBooking", res |-> "ok"]
    /\ \E i \in DOMAIN bookings : bookings[i].status = "PENDING"

\* C9: reject, reopen and approve of a newly created reservation all succeed
\* and take its status through PENDING, CANCELLED, PENDING, APPROVED; its
\* room is not OCCUPIED before the final approve and is OCCUPIED after it.
C9_ModerationScenario ==
    p6.stage > 0 =>
        /\ p6.id \in DOMAIN bookings
        /\ last.res = "ok"
        /\ last.op = CASE p6.stage = 1 -> "createBooking"
                       [] p6.stage = 2 -> "rejectBooking"
                       [] p6.stage = 3 -> "reApproveBooking"
                       [] OTHER -> "approveBooking"
        /\ bookings[p6.id].status = CASE p6.stage = 1 -> "PENDING"
                                      [] p6.stage = 2 -> "CANCELLED"
                                      [] p6.stage = 3 -> "PENDING"
                                      [] OTHER -> "APPROVED"
        /\ rooms[bookings[p6.id].roomId] = "OCCUPIED" <=> p6.stage = 4

C9_Witness ==
    /\ p6.stage = 4
    /\ bookings[p6.id].status = "APPROVED"
    /\ rooms[bookings[p6.id].roomId] = "OCCUPIED"

StatusTransitions ==
    { <<"PENDING", "APPROVED">>, <<"PENDING", "CANCELLED">>,
      <<"APPROVED", "CANCELLED">>, <<"APPROVED", "COMPLETED">>,
      <<"CANCELLED", "PENDING">> }

\* C10: every change of a stored reservation's status is one of
\* PENDING->APPROVED, PENDING->CANCELLED, APPROVED->CANCELLED,
\* APPROVED->COMPLETED, CANCELLED->PENDING; so COMPLETED is never left and is
\* entered only from APPROVED.
C10_TransitionTable ==
    [][\A i \in DOMAIN bookings \cap DOMAIN bookings' :
          bookings'[i].status # bookings[i].status
          => <<bookings[i].status, bookings'[i].status>> \in StatusTransitions]_vars

C10_Witness ==
    /\ last = [op |-> "complete", res |-> "ok"]
    /\ \E i \in DOMAIN bookings : bookings[i].status = "COMPLETED"

NotCancellable == "Only approved or pending bookings can be cancelled"

\* C11: cancelBooking on a stored reservation by anyone but its requester
\* answers 'Unauthorized' whatever the reservation's status, and the failing
\* call changes no reservation and no room.
C11_CancelByOtherUnauthorized ==
    /\ [](\A i \in DOMAIN bookings, u \in Users :
            u # bookings[i].userId => cancelOutcome(bookings, i, u) = "Unauthorized")
    /\ [][(last'.op = "cancelBooking" /\ last'.res = "Unauthorized")
            => bookings' = bookings /\ rooms' = rooms]_vars

C11_Witness ==
    /\ last = [op |-> "cancelBooking", res |-> "Unauthorized"]
    /\ DOMAIN bookings # {}
    /\ \A i \in DOMAIN bookings : bookings[i].status \in {"CANCELLED", "COMPLETED"}

\* C12: cancelBooking by the owner on a reservation that is neither PENDING
\* nor APPROVED fails with the invalid-transition error and changes no
\* reservation and no room; in particular the reservation a successful cancel
\* has just set to CANCELLED cannot be cancelled again.
C12_CancelNotRepeatable ==
    /\ [](\A i \in DOMAIN bookings :
            bookings[i].status \notin {"PENDING", "APPROVED"}
            => cancelOutcome(bookings, i, bookings[i].userId) = NotCancellable)
    /\ [][(last'.op = "cancelBooking" /\ last'.res = NotCancellable)
            => bookings' = bookings /\ rooms' = rooms]_vars
    /\ [][(last'.op = "cancelBooking" /\ last'.res = "ok")
            => \A i \in DOMAIN bookings :
                  bookings'[i] # bookings[i]
                  => /\ bookings'[i].status = "CANCELLED"
                     /\ cancelOutcome(bookings', i, bookings'[i].userId)
                            = NotCancellable]_vars

C12_Witness ==
    /\ last = [op |-> "cancelBooking", res |-> NotCancellable]
    /\ DOMAIN bookings # {}
    /\ \A i \in DOMAIN bookings : bookings[i].status = "CANCELLED"

\* some APPROVED reservation of the room other than `except` overlaps the
\* window from the current instant to the same time the next day
OtherApprovedInWindow(bks, roomId, except) ==
    \E j \in DOMAIN bks \ {except} :
        /\ bks[j].roomId = roomId
        /\ bks[j].status = "APPROVED"
        /\ Overlaps(bks[j].startTime, bks[j].endTime, now, now + MsPerDay)

Recomputed(roomId, except) ==
    [rooms EXCEPT ![roomId] =
        IF OtherApprovedInWindow(bookings, roomId, except)
        THEN "OCCUPIED" ELSE "AVAILABLE"]

\* C13: a successful cancelBooking sets exactly that reservation to CANCELLED
\* and sets its room to OCCUPIED if another APPROVED reservation of the room
\* overlaps now..now+1 day and to AVAILABLE otherwise; no other room changes.
C13_CancelRecomputesOccupancy ==
    [][(last'.op = "cancelBooking" /\ last'.res = "ok")
        => \E i \in DOMAIN bookings :
              /\ bookings[i].status \in {"PENDING", "APPROVED"}
              /\ bookings' = [bookings EXCEPT ![i].status = "CANCELLED"]
              /\ rooms' = Recomputed(bookings[i].roomId, i)]_vars

\* a cancel has left a room AVAILABLE that an approval had made OCCUPIED: the
\* room's remaining APPROVED reservation lies outside the window
C13_Witness ==
    /\ last = [op |-> "cancelBooking", res |-> "ok"]
    /\ \E i, j \in DOMAIN bookings :
          /\ bookings[i].status = "CANCELLED"
          /\ bookings[j].status = "APPROVED"
          /\ bookings[i].roomId = bookings[j].roomId
          /\ rooms[bookings[i].roomId] = "AVAILABLE"

\* C14: deleteBooking on a stored reservation succeeds whatever its status,
\* removes exactly that record (no lookup or listing finds it afterwards) and
\* recomputes its room's occupancy by the rule of cancellation.
C14_DeleteRemovesAndRecomputes ==
    [][last'.op = "deleteBooking" =>
        \A i \in DOMAIN bookings :
          deleteBooking(i)
          => /\ last'.res = "ok"
             /\ DOMAIN bookings' = DOMAIN bookings \ {i}
             /\ findByUserId(bookings', bookings[i].userId)
                    = findByUserId(bookings, bookings[i].userId) \ {i}
             /\ \A j \in DOMAIN bookings' : bookings'[j] = bookings[j]
             /\ rooms' = Recomputed(bookings[i].roomId, i)]_vars

C14_Witness ==
    /\ last = [op |-> "deleteBooking", res |-> "ok"]
    /\ nextId = 3
    /\ DOMAIN bookings = {2}
    /\ bookings[2].status = "APPROVED"
    /\ rooms[bookings[2].roomId] = "AVAILABLE"

BadDuration == "Booking must be 1 or 2 hours"
NonPositiveDuration == "End time must be after start time"
OutsideOperatingHours == "Bookings only available between 7 AM and 9 PM"
InsufficientNotice == "Must book at least 1 day in advance"

DateOf(t) == t \div MsPerDay
HourOfDay(t) == (t % MsPerDay) \div MsPerHour
Minutes(n) == n * 60 * 1000

Requested == query.op = "createBooking"
Length == query.endTime - query.startTime
NothingStored == bookings = EmptyStore /\ nextId = 1
StoredAsRequested ==
    /\ DOMAIN bookings = {1}
    /\ bookings[1].startTime = query.startTime
    /\ bookings[1].endTime = query.endTime
    /\ bookings[1].roomId = query.roomId

\* C15: a request whose end is after its start and whose length is neither
\* 1 hour nor 2 hours is rejected with 'Booking must be 1 or 2 hours', a
\* request whose end is not after its start with 'End time must be after
\* start time', whatever the start hour and date; nothing is stored.
C15_DurationEnforced ==
    Requested =>
        /\ (Length > 0 /\ Length \notin {Minutes(60), Minutes(120)})
              => last.res = BadDuration /\ NothingStored
        /\ Length <= 0 => last.res = NonPositiveDuration /\ NothingStored
        /\ last.res = "ok" => Length \in {Minutes(60), Minutes(120)}

C15_Witness ==
    /\ Requested
    /\ Length = Minutes(150)
    /\ HourOfDay(query.startTime) = 10
    /\ DateOf(query.startTime) = DateOf(now) + 2
    /\ last = [op |-> "createBooking", res |-> BadDuration]

\* C16: a request of 1 or 2 hours whose start hour is below 7 or at least 21
\* is rejected with 'Bookings only available between 7 AM and 9 PM'; no
\* request starting at such an hour is stored; a 1-hour request starting in
\* any hour from 7 to 20 is never rejected for its hour, and is stored when
\* it starts on a later date than today.
C16_OperatingHours ==
    Requested =>
        /\ (/\ Length \in {Minutes(60), Minutes(120)}
            /\ (HourOfDay(query.startTime) < 7 \/ HourOfDay(query.startTime) >= 21))
              => last.res = OutsideOperatingHours
        /\ (HourOfDay(query.startTime) < 7 \/ HourOfDay(query.startTime) >= 21)
              => last.res # "ok" /\ NothingStored
        /\ (Length = Minutes(60) /\ HourOfDay(query.startTime) \in 7..20)
              => /\ last.res \in {"ok", InsufficientNotice}
                 /\ DateOf(query.startTime) > DateOf(now)
                      => last.res = "ok" /\ StoredAsRequested

C16_Witness ==
    /\ Requested
    /\ Length = Minutes(60)
    /\ HourOfDay(query.startTime) = 20
    /\ last = [op |-> "createBooking", res |-> "ok"]
    /\ StoredAsRequested

WellFormed ==
    /\ Length \in {Minutes(60), Minutes(120)}
    /\ HourOfDay(query.startTime) \in 7..20

\* C17 (as claimed): with the current date D, a well-formed request starting
\* on D or on D+1 is rejected with 'Must book at least 1 day in advance' and
\* one starting on D+2 or later is accepted.
C17_NoticeTwoDays ==
    (Requested /\ WellFormed) =>
        /\ DateOf(query.startTime) - DateOf(now) \in {0, 1}
              => last.res = InsufficientNotice
        /\ DateOf(query.startTime) - DateOf(now) >= 2 => last.res = "ok"

\* C17 (amended): with the current date D, a well-formed request starting on
\* D is rejected with 'Must book at least 1 day in advance' and one starting
\* on D+1, on D+2 or later is accepted and stored (at 14:00 of day 0 both
\* 10:00 of day 1 and 10:00 of day 2 are accepted).
C17_NoticeOneDay ==
    (Requested /\ WellFormed) =>
        /\ DateOf(query.startTime) - DateOf(now) = 0
              => last.res = InsufficientNotice /\ NothingStored
        /\ DateOf(query.startTime) - DateOf(now) = 1
              => last.res = "ok" /\ StoredAsRequested
        /\ DateOf(query.startTime) - DateOf(now) >= 2
              => last.res = "ok" /\ StoredAsRequested

C17_Witness ==
    /\ Requested
    /\ now = At(0, 14, 0)
    /\ query.startTime = At(1, 10, 0)
    /\ query.endTime = At(1, 11, 0)
    /\ last = [op |-> "createBooking", res |-> "ok"]
    /\ StoredAsRequested

\* C18: a well-formed request is rejected with 'Must book at least 1 day in
\* advance' exactly when its start date is the current date or an earlier
\* one, and accepted exactly when its start date is the next calendar day or
\* later, at whatever time of day the request is made.
C18_NoticeByCalendarDate ==
    (Requested /\ WellFormed) =>
        /\ last.res = InsufficientNotice <=> DateOf(query.startTime) <= DateOf(now)
        /\ last.res = "ok" <=> DateOf(query.startTime) >= DateOf(now) + 1

\* a request made one minute before midnight for 07:00 of the next morning
C18_Witness ==
    /\ Requested
    /\ now = At(0, 23, 59)
    /\ query.startTime = At(1, 7, 0)
    /\ last = [op |-> "createBooking", res |-> "ok"]
    /\ StoredAsRequested

SlotInstant(date, hour) == DateOf(date) * MsPerDay + hour * MsPerHour

BusyAt(roomId, t) ==
    \E i \in DOMAIN bookings :
        /\ bookings[i].roomId = roomId
        /\ bookings[i].status = "APPROVED"
        /\ bookings[i].startTime <= t
        /\ t < bookings[i].endTime

\* C19: getAvailableSlots returns 14 slots, for the hours 7..20 in ascending
\* order, each ending one hour after it starts; the slot of hour h is
\* reported busy exactly when an APPROVED reservation of the room has
\* start <= h:00 < end on the date asked for.
C19_SlotGrid ==
    query.op = "getAvailableSlots" =>
        /\ DOMAIN query.res = 1..14
        /\ \A k \in 1..14 :
              /\ query.res[k].startHour = 6 + k
              /\ query.res[k].endHour = query.res[k].startHour + 1
              /\ query.res[k].isAvailable
                    <=> ~BusyAt(query.roomId, SlotInstant(query.date, 6 + k))

\* an APPROVED booking 10:00-12:00 makes the slots of 10 and 11 busy while a
\* booking of the room at 14:00 that is not APPROVED leaves its slot free
C19_Witness ==
    /\ query.op = "getAvailableSlots"
    /\ \E i, j \in DOMAIN bookings :
          /\ bookings[i].roomId = query.roomId
          /\ bookings[i].status = "APPROVED"
          /\ bookings[i].startTime = At(2, 10, 0)
          /\ bookings[i].endTime = At(2, 12, 0)
          /\ bookings[j].roomId = query.roomId
          /\ bookings[j].status \in {"PENDING", "CANCELLED"}
          /\ bookings[j].startTime = At(2, 14, 0)
    /\ DateOf(query.date) = 2
    /\ ~query.res[4].isAvailable
    /\ ~query.res[5].isAvailable
    /\ query.res[6].isAvailable
    /\ query.res[8].isAvailable

ReadOps == {"getAvailableSlots", "getUserBookings", "getAllBookings", "getAllRooms"}

\* C20: getAvailableSlots, getUserBookings, getAllBookings and getAllRooms
\* change no stored reservation and no room; getUserBookings(u) returns
\* exactly the stored reservations whose requester is u, getAllBookings all
\* of them and getAllRooms the rooms as they are.
C20_ReadsArePure ==
    /\ [][query'.op \in ReadOps => bookings' = bookings /\ rooms' = rooms]_vars
    /\ [](query.op = "getUserBookings"
            => query.res = {i \in DOMAIN bookings : bookings[i].userId = query.userId})
    /\ [](query.op = "getAllBookings" => query.res = DOMAIN bookings)
    /\ [](query.op = "getAllRooms" => query.res = rooms)

C20_Witness ==
    /\ query.op = "getUserBookings"
    /\ query.res # {}
    /\ query.res # DOMAIN bookings
    /\ \A i \in query.res : bookings[i].userId = query.userId

MutatingOps ==
    {"createBooking", "cancelBooking", "approveBooking", "rejectBooking",
     "reApproveBooking", "deleteBooking"}

\* C21: a call of createBooking, cancelBooking, approveBooking, rejectBooking,
\* reApproveBooking or deleteBooking that fails, with whatever error, leaves
\* every stored reservation and every room as it was before the call.
C21_FailuresChangeNothing ==
    [][(last'.op \in MutatingOps /\ last'.res # "ok")
        => bookings' = bookings /\ rooms' = rooms]_vars

\* a failed approval of a reservation that is not PENDING, in a store where
\* an earlier approval has made a room OCCUPIED
C21_Witness ==
    /\ last = [op |-> "approveBooking", res |-> "Only pending bookings can be approved"]
    /\ \E i \in DOMAIN bookings : bookings[i].status = "CANCELLED"
    /\ \E i \in DOMAIN bookings : bookings[i].status = "APPROVED"
    /\ \E r \in Rooms : rooms[r] = "OCCUPIED"

Rejected(op) == validate(op[3][1], op[3][2], now) # "ok"

\* C22 (as claimed): a request on an existing room that the validator
\* rejects fails with the validator's reason, whatever the requester holds
\* that day and whatever is APPROVED on the room.
C22_ValidatorReasonFirst ==
    \A op \in CreateInputs :
        (op[2] \in Rooms /\ Rejected(op))
        => Outcome(op) = validate(op[3][1], op[3][2], now)

\* the reason createBooking gives when its checks are applied in the order
\* room lookup, room state, same-day quota, conflict, validation
FirstFailure(op) ==
    CASE op[2] \notin Rooms -> "Room not found"
      [] op[2] \in Rooms /\ rooms[op[2]] # "AVAILABLE" -> "Room is not available"
      [] OTHER ->
           IF HoldsThatDay(op[1], op[3][1], {"PENDING", "APPROVED"})
           THEN "You can only book one room per day"
           ELSE IF OverlapsApproved(op[2], op[3][1], op[3][2])
           THEN "Time slot already booked"
           ELSE validate(op[3][1], op[3][2], now)

\* C22 (amended): createBooking applies its checks in the order room lookup,
\* room state, same-day quota, conflict with an APPROVED reservation, and
\* validation last; a request that breaks several rules fails with the reason
\* of the earliest in that order, so a request the validator would reject
\* fails with 'You can only book one room per day' or 'Time slot already
\* booked' when the requester holds a reservation that day or the slot is
\* APPROVED for someone else.
C22_ValidationLast ==
    \A op \in CreateInputs : Outcome(op) = FirstFailure(op)

\* a call has just failed for the same-day rule in a state where a request
\* the validator rejects fails for that rule
C22_Witness ==
    /\ last = [op |-> "createBooking", res |-> "You can only book one room per day"]
    /\ \E op \in CreateInputs :
          /\ Rejected(op)
          /\ Outcome(op) = "You can only book one room per day"

RoomStatuses == {"AVAILABLE", "OCCUPIED", "MAINTENANCE"}

StateNamed(st) ==
    CASE st = "available" -> "AVAILABLE"
      [] st = "occupied" -> "OCCUPIED"
      [] st = "maintenance" -> "MAINTENANCE"

SameButStatus(b1, b2) == [b1 EXCEPT !.status = b2.status] = b2

Touched ==
    {i \in DOMAIN bookings :
        i \notin DOMAIN bookings' \/ bookings'[i].status # bookings[i].status}

FrameOf(touched) ==
    /\ Cardinality(touched) <= 1
    /\ \A r \in Rooms :
          rooms'[r] # rooms[r] => \E i \in touched : bookings[i].roomId = r
    /\ DOMAIN bookings' \ DOMAIN bookings # {}
          => /\ last' = [op |-> "createBooking", res |-> "ok"]
             /\ DOMAIN bookings' = DOMAIN bookings \cup {nextId}
             /\ touched = {}
             /\ rooms' = rooms

\* C25: a step of a mutating operation changes at most one reservation, and
\* of it only the status (or removes it); the room, requester, requester
\* name, start, end and creation time of a stored reservation never change;
\* a room changes state only if it is the room of the reservation the step
\* changed or removed; a successful createBooking adds one record under a
\* fresh id and changes no stored record and no room.
C25_Frame ==
    [][(bookings' # bookings \/ rooms' # rooms)
        => /\ \A i \in DOMAIN bookings \cap DOMAIN bookings' :
                 SameButStatus(bookings[i], bookings'[i])
           /\ FrameOf(Touched)]_vars

\* a cancel has changed one reservation and its room while a reservation of
\* another room stays APPROVED and that room OCCUPIED
C25_Witness ==
    /\ last = [op |-> "cancelBooking", res |-> "ok"]
    /\ \E i, j \in DOMAIN bookings :
          /\ bookings[i].status = "CANCELLED"
          /\ rooms[bookings[i].roomId] = "AVAILABLE"
          /\ bookings[j].status = "APPROVED"
          /\ bookings[j].roomId # bookings[i].roomId
          /\ rooms[bookings[j].roomId] = "OCCUPIED"

\* C26: no requester holds two distinct reservations in status PENDING or
\* APPROVED that start on the same calendar day.
C26_SameDayExclusive ==
    \A i, j \in DOMAIN bookings :
        (/\ i # j
         /\ bookings[i].userId = bookings[j].userId
         /\ bookings[i].status \in {"PENDING", "APPROVED"}
         /\ bookings[j].status \in {"PENDING", "APPROVED"})
        => DateOf(bookings[i].startTime) # DateOf(bookings[j].startTime)

\* C27: while a room is in MAINTENANCE only the status route takes it out of
\* MAINTENANCE, and no createBooking on it succeeds.
C27_MaintenanceRespected ==
    [][\A r \in Rooms :
          (rooms[r] = "MAINTENANCE" /\ last'.op # "updateRoomStatus")
          => /\ rooms'[r] = "MAINTENANCE"
             /\ \A i \in DOMAIN bookings' \ DOMAIN bookings :
                   bookings'[i].roomId # r]_vars

\* C30: a room with at least one APPROVED reservation is OCCUPIED, and a room
\* is AVAILABLE until a reservation of it is approved (it starts AVAILABLE and
\* leaves AVAILABLE only in a step that approves one of its reservations).
C30_OccupancyTracksApproved ==
    /\ [](\A r \in Rooms :
            (\E i \in DOMAIN bookings :
                bookings[i].roomId = r /\ bookings[i].status = "APPROVED")
            => rooms[r] = "OCCUPIED")
    /\ [][\A r \in Rooms :
            (rooms[r] = "AVAILABLE" /\ rooms'[r] # "AVAILABLE")
            => /\ last'.op = "approveBooking"
               /\ \E i \in DOMAIN bookings :
                     /\ bookings[i].roomId = r
                     /\ bookings[i].status # "APPROVED"
                     /\ bookings'[i].status = "APPROVED"]_vars

\* C28: every reservation that createBooking accepts starts at or after
\* 07:00 and ends at or before 21:00 of the date it starts on.
C28_InsideOperatingDay ==
    (Requested /\ last.res = "ok") =>
        /\ query.startTime >= DateOf(query.startTime) * MsPerDay + 7 * MsPerHour
        /\ query.endTime <= DateOf(query.startTime) * MsPerDay + 21 * MsPerHour

\* C29: when getAvailableSlots reports the slot of hour h free, no APPROVED
\* reservation of the room overlaps [h:00, h+1:00), that is, the conflict
\* check of createBooking finds nothing for a 1-hour request on that slot.
C29_FreeSlotHasNoConflict ==
    query.op = "getAvailableSlots" =>
        \A k \in 1..14 :
            query.res[k].isAvailable
            => approvedConflicts(bookings, query.roomId,
                    SlotInstant(query.date, 6 + k),
                    SlotInstant(query.date, 7 + k)) = {}

ActiveOf(u) == {i \in DOMAIN bookings : bookings[i].userId = u /\ bookings[i].status = "ACTIVE"}

UnmoderatedInputs == Users \X UnmoderatedRooms \X Requests

UnmoderatedOutcome(op) ==
    unmoderated_createOutcome(bookings, rooms, op[1], op[2], op[3][1], op[3][2], now)

OverlapsActive(roomId, startTime, endTime) ==
    \E i \in DOMAIN bookings :
        /\ bookings[i].roomId = roomId
        /\ bookings[i].status = "ACTIVE"
        /\ Overlaps(bookings[i].startTime, bookings[i].endTime, startTime, endTime)

MaximumTwo == "Maximum 2 active bookings per user"

CreatedActive ==
    [][last' = [op |-> "createBooking", res |-> "ok"]
        => /\ DOMAIN bookings' = DOMAIN bookings \cup {nextId}
           /\ nextId \notin DOMAIN bookings
           /\ bookings'[nextId].status = "ACTIVE"
           /\ \A i \in DOMAIN bookings : bookings'[i] = bookings[i]
           /\ rooms' = [rooms EXCEPT ![bookings'[nextId].roomId] = "OCCUPIED"]]_vars

\* C24 (as claimed): in the unmoderated service a successful createBooking
\* stores the booking as ACTIVE and sets its room OCCUPIED, no user ever
\* holds more than 2 ACTIVE bookings, and a createBooking by a user who holds
\* 2 ACTIVE bookings fails with 'Maximum 2 active bookings per user'.
C24_ThirdFailsWithMaximumTwo ==
    /\ CreatedActive
    /\ [](\A u \in Users : Cardinality(ActiveOf(u)) <= 2)
    /\ [](\A op \in UnmoderatedInputs :
            Cardinality(ActiveOf(op[1])) = 2 => UnmoderatedOutcome(op) = MaximumTwo)

\* C24 (amended): the same, except that the createBooking of a user who
\* holds 2 ACTIVE bookings always fails, and with 'Maximum 2 active bookings
\* per user' exactly when the room is AVAILABLE and no ACTIVE booking of it
\* overlaps the interval; otherwise 'Room is not available' or 'Time slot
\* already booked' comes first.
C24_AtMostTwoActive ==
    /\ CreatedActive
    /\ [](\A u \in Users : Cardinality(ActiveOf(u)) <= 2)
    /\ [](\A op \in UnmoderatedInputs :
            Cardinality(ActiveOf(op[1])) = 2
            => UnmoderatedOutcome(op) =
                 IF rooms[op[2]] # "AVAILABLE" THEN "Room is not available"
                 ELSE IF OverlapsActive(op[2], op[3][1], op[3][2])
                 THEN "Time slot already booked"
                 ELSE MaximumTwo)

C24_Witness ==
    /\ last = [op |-> "createBooking", res |-> MaximumTwo]
    /\ \E u \in Users : Cardinality(ActiveOf(u)) = 2
    /\ \E r \in UnmoderatedRooms : rooms[r] = "AVAILABLE"

====
